---- MODULE Spec2Model ----
(***************************************************************************)
(* A model of scripts/scraper.py: the criteria matcher, the three source   *)
(* adapters, the URL deduplication of main, and the two digest renderers.  *)
(* Python strings are TLA+ strings; a dict is a record whose DOMAIN is the *)
(* set of keys that are present.                                           *)
(***************************************************************************)
EXTENDS Integers, Sequences, FiniteSets, TLC

VARIABLES
    MIN_SALARY,       \* module global, line 8
    JOB_TITLES,       \* module global, line 9
    KEYWORDS,         \* module global, line 10
    REGION,           \* module global, line 11
    api_key,          \* os.getenv('RAPIDAPI_KEY'), "" when unset
    pc,               \* the position of the running function
    arg,              \* the argument of the function under call
    ret,              \* its return value
    loc_idx,          \* scrape_linkedin_api: index of the next location
    jobs,             \* the running adapter's local list
    all_jobs,         \* main: the concatenated list
    unique_jobs,      \* main: the deduplicated list
    calls,            \* the adapters main has invoked, in order
    requests,         \* the requests.get calls issued, in order
    github_output,    \* what main has appended to $GITHUB_OUTPUT
    jobs_found_json,  \* what main has dumped to jobs_found.json
    console           \* the last line printed to stdout

vars == <<MIN_SALARY, JOB_TITLES, KEYWORDS, REGION, api_key, pc, arg, ret,
          loc_idx, jobs, all_jobs, unique_jobs, calls, requests, github_output,
          jobs_found_json, console>>

config == <<MIN_SALARY, JOB_TITLES, KEYWORDS, REGION, api_key>>

(***************************************************************************)
(* Python string primitives.                                               *)
(***************************************************************************)
UPPER == "ABCDEFGHIJKLMNOPQRSTUVWXYZ"

LOWER == "abcdefghijklmnopqrstuvwxyz"

DIGITS == "0123456789"

\* str.isdigit() is true of U+00B2 SUPERSCRIPT TWO although int() rejects it.
\* The model's strings are ASCII: "^" is the code of that character.
SUPERSCRIPTS == "^"

WHITESPACE == {" ", "\t", "\n"}

Char(s, i) == SubSeq(s, i, i)

Drop(s, n) == SubSeq(s, n + 1, Len(s))

Chars(s) == {Char(s, i) : i \in 1..Len(s)}

\* t in s
Contains(s, t) ==
    \E i \in 1..(Len(s) - Len(t) + 1) : SubSeq(s, i, i + Len(t) - 1) = t

UpperChars == Chars(UPPER)

DigitChars == Chars(DIGITS)

IsDigitChars == Chars(DIGITS) \cup Chars(SUPERSCRIPTS)

ToLower == [c \in UpperChars |-> Char(LOWER, CHOOSE i \in 1..Len(UPPER) : Char(UPPER, i) = c)]

LowerChar(c) == IF c \in UpperChars THEN ToLower[c] ELSE c

RECURSIVE Lower(_)
\* s.lower()
Lower(s) == IF s = "" THEN "" ELSE LowerChar(Char(s, 1)) \o Lower(Drop(s, 1))

RECURSIVE LStrip(_)
LStrip(s) == IF s # "" /\ Char(s, 1) \in WHITESPACE THEN LStrip(Drop(s, 1)) ELSE s

RECURSIVE RStrip(_)
RStrip(s) ==
    IF s # "" /\ Char(s, Len(s)) \in WHITESPACE
    THEN RStrip(SubSeq(s, 1, Len(s) - 1))
    ELSE s

\* s.strip()
Strip(s) == RStrip(LStrip(s))

RECURSIVE Remove(_, _)
\* s.replace(c, '') for a one-character c
Remove(s, c) ==
    IF s = "" THEN ""
    ELSE (IF Char(s, 1) = c THEN "" ELSE Char(s, 1)) \o Remove(Drop(s, 1), c)

RECURSIVE SplitOn(_, _, _)
\* s.split(sep) for a one-character sep; cur is the piece being read
SplitOn(s, sep, cur) ==
    IF s = "" THEN <<cur>>
    ELSE IF Char(s, 1) = sep THEN <<cur>> \o SplitOn(Drop(s, 1), sep, "")
    ELSE SplitOn(Drop(s, 1), sep, cur \o Char(s, 1))

RECURSIVE SplitWs(_, _)
\* s.split(): the maximal runs of non-whitespace characters
SplitWs(s, cur) ==
    IF s = "" THEN (IF cur = "" THEN <<>> ELSE <<cur>>)
    ELSE IF Char(s, 1) \in WHITESPACE
         THEN (IF cur = "" THEN <<>> ELSE <<cur>>) \o SplitWs(Drop(s, 1), "")
         ELSE SplitWs(Drop(s, 1), cur \o Char(s, 1))

\* s.isdigit()
IsDigit(s) == s # "" /\ \A i \in 1..Len(s) : Char(s, i) \in IsDigitChars

\* int(s) raises ValueError
IntRaises(s) == ~(s # "" /\ \A i \in 1..Len(s) : Char(s, i) \in DigitChars)

DigitValue == [c \in DigitChars |-> (CHOOSE i \in 1..Len(DIGITS) : Char(DIGITS, i) = c) - 1]

RECURSIVE ParseInt(_)
\* int(s) for a string of decimal digits
ParseInt(s) ==
    IF s = "" THEN 0
    ELSE ParseInt(SubSeq(s, 1, Len(s) - 1)) * 10 + DigitValue[Char(s, Len(s))]

\* ' '.join(words)
RECURSIVE Join(_)
Join(words) ==
    IF Len(words) = 0 THEN ""
    ELSE IF Len(words) = 1 THEN words[1]
    ELSE words[1] \o " " \o Join(Tail(words))

\* d.get(key, default)
Get(d, key, default) == IF key \in DOMAIN d THEN d[key] ELSE default

Range(seq) == {seq[i] : i \in 1..Len(seq)}

Min(S) == CHOOSE m \in S : \A n \in S : m <= n

(***************************************************************************)
(* Module globals, lines 8-19.                                             *)
(***************************************************************************)
LoadMinSalary(env) == ParseInt(env)

LoadJobTitles(env) == SplitOn(Lower(env), ",", "")

LoadKeywords(env) == SplitOn(Lower(env), ",", "")

LoadRegion(env) == Lower(env)

ASIA_LOCATIONS ==
    << "singapore", "india", "japan", "south korea", "korea", "thailand",
       "vietnam", "malaysia", "indonesia", "philippines", "pakistan",
       "bangladesh", "sri lanka", "hong kong", "china", "taiwan",
       "asia", "asiapac", "apac", "sg", "jp", "in", "th", "vn", "my" >>

(***************************************************************************)
(* matches_criteria, lines 32-75.                                          *)
(***************************************************************************)
\* line 38: the composite text
Text(job) ==
    Lower(Get(job, "title", "")) \o " " \o Lower(Get(job, "description", ""))
        \o " " \o Lower(Get(job, "company", ""))
        \o " " \o Lower(Get(job, "location", ""))

\* a slip: the title tokens looked up in the composite text
title_match_in_text(job) ==
    \E i \in 1..Len(JOB_TITLES) : Contains(Text(job), Strip(JOB_TITLES[i]))

\* line 41
title_match(job) ==
    \E i \in 1..Len(JOB_TITLES) :
        Contains(Lower(Get(job, "title", "")), Strip(JOB_TITLES[i]))

\* line 46
keyword_match(job) ==
    \E i \in 1..Len(KEYWORDS) : Contains(Text(job), Strip(KEYWORDS[i]))

\* lines 52 and 56: any(loc in location for loc in ASIA_LOCATIONS)
location_match(location) ==
    \E i \in 1..Len(ASIA_LOCATIONS) : Contains(location, ASIA_LOCATIONS[i])

\* a slip: every location that says "remote" is rejected
RegionRejectsAnyRemote(job) ==
    /\ Lower(REGION) = "asia"
    /\ Contains(Lower(Get(job, "location", "")), "remote")

\* lines 51-57: TRUE when the region block executes `return False`
RegionRejects(job) ==
    LET location == Lower(Get(job, "location", ""))
    IN  /\ Lower(REGION) = "asia"
        /\ ~location_match(location)
        /\ Contains(location, "remote") /\ ~location_match(location)

\* line 64: the tokens that pass s.isdigit()
DigitTokens(salary_str) ==
    SelectSeq(SplitWs(Remove(Remove(salary_str, "$"), ","), ""), IsDigit)

\* a slip: the annual threshold taken inclusively
BelowFloorInclusive(salary_num, floor) ==
    IF salary_num >= 100000 THEN salary_num < floor * 12 ELSE salary_num < floor

\* lines 68-70: salary_num / 12 < MIN_SALARY, on the rationals
BelowFloor(salary_num, floor) ==
    IF salary_num > 100000 THEN salary_num < floor * 12 ELSE salary_num < floor

\* lines 60-73: TRUE when the salary block executes `return False`
SalaryRejects(salary_str, floor) ==
    /\ salary_str # ""
    /\ Lower(salary_str) # "not specified"
    /\ LET tokens == DigitTokens(salary_str)
       IN  /\ \A i \in 1..Len(tokens) : ~IntRaises(tokens[i])   \* else: except ValueError
           /\ tokens # <<>>
           /\ BelowFloor(Min({ParseInt(tokens[i]) : i \in 1..Len(tokens)}), floor)

matches_criteria(job) ==
    IF ~title_match(job) THEN FALSE
    ELSE IF ~keyword_match(job) THEN FALSE
    ELSE IF RegionRejects(job) THEN FALSE
    ELSE IF SalaryRejects(Get(job, "salary", ""), MIN_SALARY) THEN FALSE
    ELSE TRUE

(***************************************************************************)
(* clean_text, lines 21-30.                                                *)
(***************************************************************************)
\* The length of the match of <[^>]+> at the head of s, 0 when there is none.
TagLength(s) ==
    IF Len(s) >= 3 /\ Char(s, 1) = "<" /\ Char(s, 2) # ">"
           /\ \E j \in 3..Len(s) : Char(s, j) = ">"
    THEN CHOOSE j \in 3..Len(s) :
             Char(s, j) = ">" /\ \A k \in 3..(j - 1) : Char(s, k) # ">"
    ELSE 0

RECURSIVE StripTags(_)
\* re.sub(r'<[^>]+>', '', text)
StripTags(s) ==
    IF s = "" THEN ""
    ELSE IF TagLength(s) > 0 THEN StripTags(Drop(s, TagLength(s)))
    ELSE Char(s, 1) \o StripTags(Drop(s, 1))

clean_text(text) == IF text = "" THEN "" ELSE StripTags(Join(SplitWs(text, "")))

\* [:300], lines 133, 170, 201
DescriptionLimit == 300

Truncate(s) == SubSeq(s, 1, IF Len(s) < DescriptionLimit THEN Len(s) ELSE DescriptionLimit)

(***************************************************************************)
(* format_email_body and format_email_body_html, lines 217-261.  A body is *)
(* the sequence of its lines.  The emoji of the literals are left out: the *)
(* strings of the model are ASCII.                                         *)
(***************************************************************************)
\* lines 232 and 255: if job.get('posted_date')
HasPostedDate(job) == Get(job, "posted_date", "") # ""

\* lines 227-236
TextSection(idx, job) ==
    << "## " \o ToString(idx) \o ". " \o job["title"],
       "**Company:** " \o job["company"],
       "**Location:** " \o job["location"],
       "**Salary:** " \o job["salary"],
       "**Source:** " \o job["source"] >>
    \o (IF HasPostedDate(job) THEN <<"**Posted:** " \o job["posted_date"]>> ELSE <<>>)
    \o << "**Description:** " \o job["description"] \o "...",
          "**Link:** " \o job["url"],
          "",
          "---",
          "" >>

\* a slip: salary and location change places in the HTML section
HtmlSectionSalaryFirst(idx, job) ==
    << "<h2>" \o ToString(idx) \o ". " \o job["title"] \o "</h2>",
       "<p><strong>Company:</strong> " \o job["company"] \o "</p>",
       "<p><strong>Salary:</strong> " \o job["salary"] \o "</p>",
       "<p><strong>Location:</strong> " \o job["location"] \o "</p>",
       "<p><strong>Source:</strong> " \o job["source"] \o "</p>" >>
    \o (IF HasPostedDate(job)
        THEN <<"<p><strong>Posted:</strong> " \o job["posted_date"] \o "</p>">>
        ELSE <<>>)
    \o << "<p><strong>Description:</strong> " \o job["description"] \o "...</p>",
          "<p><a href='" \o job["url"] \o "'>View Full Job</a></p>",
          "<hr>" >>

\* lines 250-259
HtmlSection(idx, job) ==
    << "<h2>" \o ToString(idx) \o ". " \o job["title"] \o "</h2>",
       "<p><strong>Company:</strong> " \o job["company"] \o "</p>",
       "<p><strong>Location:</strong> " \o job["location"] \o "</p>",
       "<p><strong>Salary:</strong> " \o job["salary"] \o "</p>",
       "<p><strong>Source:</strong> " \o job["source"] \o "</p>" >>
    \o (IF HasPostedDate(job)
        THEN <<"<p><strong>Posted:</strong> " \o job["posted_date"] \o "</p>">>
        ELSE <<>>)
    \o << "<p><strong>Description:</strong> " \o job["description"] \o "...</p>",
          "<p><a href='" \o job["url"] \o "'>View Full Job</a></p>",
          "<hr>" >>

RECURSIVE TextSections(_, _)
\* line 226: for idx, job in enumerate(jobs, 1)
TextSections(list, idx) ==
    IF idx > Len(list) THEN <<>>
    ELSE TextSection(idx, list[idx]) \o TextSections(list, idx + 1)

RECURSIVE HtmlSections(_, _)
\* line 249
HtmlSections(list, idx) ==
    IF idx > Len(list) THEN <<>>
    ELSE HtmlSection(idx, list[idx]) \o HtmlSections(list, idx + 1)

format_email_body(list, today) ==
    IF list = <<>> THEN <<"No jobs matching your criteria found today.">>
    ELSE << "# Job Opportunities Found!",
            "",
            "Found **" \o ToString(Len(list)) \o "** matching job(s) on " \o today,
            "",
            "---",
            "" >> \o TextSections(list, 1)

format_email_body_html(list, today) ==
    IF list = <<>> THEN <<"<p>No jobs matching your criteria found today.</p>">>
    ELSE << "<h1>Job Opportunities Found!</h1>",
            "<p>Found <strong>" \o ToString(Len(list))
                \o "</strong> matching job(s) on " \o today \o "</p>",
            "<hr>" >> \o HtmlSections(list, 1)

(***************************************************************************)
(* The deduplication of main, line 277.                                    *)
(***************************************************************************)
\* a slip: the first record seen for a URL is kept
DictSetDefault(d, job) ==
    IF \E i \in 1..Len(d) : d[i]["url"] = job["url"] THEN d ELSE Append(d, job)

\* d[key] = value on an insertion-ordered dict held as a list of records
DictSet(d, job) ==
    IF \E i \in 1..Len(d) : d[i]["url"] = job["url"]
    THEN [i \in 1..Len(d) |-> IF d[i]["url"] = job["url"] THEN job ELSE d[i]]
    ELSE Append(d, job)

RECURSIVE DedupFrom(_, _)
DedupFrom(list, d) ==
    IF list = <<>> THEN d
    ELSE IF Head(list)["url"] = "" THEN DedupFrom(Tail(list), d)
    ELSE DedupFrom(Tail(list), DictSet(d, Head(list)))

\* list({job['url']: job for job in all_jobs if job['url']}.values())
Dedup(list) == DedupFrom(list, <<>>)

(***************************************************************************)
(* Upstream JSON values.  A JSON value that is not an object is the record *)
(* with the one key "$scalar"; an object one of whose text fields holds a  *)
(* non-string (null, a number) carries the key "$illtyped": .lower() on    *)
(* such a field raises AttributeError inside matches_criteria.             *)
(***************************************************************************)
IsDict(item) == "$scalar" \notin DOMAIN item

IllTyped(item) == "$illtyped" \in DOMAIN item

(***************************************************************************)
(* scrape_linkedin_api, lines 77-152.                                      *)
(***************************************************************************)
locations == <<"Singapore", "India", "Tokyo", "Bangkok", "Manila", "Hanoi">>

\* lines 119-125: the dict handed to matches_criteria
LinkedInJobData(job) ==
    [ title |-> Get(job, "job_title", ""),
      company |-> Get(job, "employer_name", ""),
      description |-> Get(job, "job_description", ""),
      location |-> Get(job, "job_city", "") \o ", " \o Get(job, "job_country", ""),
      salary |-> "" ]

\* lines 128-137: the record appended to jobs
LinkedInRecord(job) ==
    [ title |-> Get(job, "job_title", "N/A"),
      company |-> Get(job, "employer_name", "N/A"),
      location |-> Get(job, "job_city", "Remote") \o ", " \o Get(job, "job_country", ""),
      url |-> Get(job, "job_apply_link",
                  "https://linkedin.com/jobs/view/" \o Get(job, "job_id", "")),
      description |-> Truncate(clean_text(Get(job, "job_description", ""))),
      source |-> "LinkedIn (JSearch API)",
      salary |-> Get(job, "job_salary_min", "Not specified"),
      posted_date |-> Get(job, "job_posted_at_datetime_utc", "") ]

RECURSIVE LinkedInLoop(_, _)
\* lines 117-139: an item that raises is skipped (except Exception: continue)
LinkedInLoop(data, acc) ==
    IF data = <<>> THEN acc
    ELSE LET job == Head(data)
         IN  IF ~IsDict(job) \/ IllTyped(job) THEN LinkedInLoop(Tail(data), acc)
             ELSE IF matches_criteria(LinkedInJobData(job))
                  THEN LinkedInLoop(Tail(data), Append(acc, LinkedInRecord(job)))
                  ELSE LinkedInLoop(Tail(data), acc)

\* a slip: the handler leaves the loop
AfterLocationErrorBreak(idx) == Len(locations) + 1

\* lines 141-146: both handlers of the per-location try end in `continue`
AfterLocationError(idx) == idx + 1

(***************************************************************************)
(* scrape_remoteok, lines 154-179.                                         *)
(***************************************************************************)
\* lines 165-174
RemoteOKRecord(job) ==
    [ title |-> Get(job, "title", "N/A"),
      company |-> Get(job, "company", "N/A"),
      location |-> Get(job, "location", "Remote"),
      url |-> Get(job, "url", ""),
      description |-> Truncate(clean_text(Get(job, "description", ""))),
      source |-> "RemoteOK",
      salary |-> Get(job, "salary", "Not specified"),
      posted_date |-> Get(job, "date", "") ]

RECURSIVE RemoteOKLoop(_, _)
\* lines 163-174: the records collected until the loop ends or an item raises
RemoteOKLoop(data, acc) ==
    IF data = <<>> THEN acc
    ELSE LET job == Head(data)
         IN  IF ~IsDict(job) THEN RemoteOKLoop(Tail(data), acc)
             ELSE IF IllTyped(job) THEN acc
             ELSE IF matches_criteria(job)
                  THEN RemoteOKLoop(Tail(data), Append(acc, RemoteOKRecord(job)))
                  ELSE RemoteOKLoop(Tail(data), acc)

(***************************************************************************)
(* scrape_workingnomads, lines 181-215.                                    *)
(***************************************************************************)
\* lines 196-205
WorkingNomadsRecord(job) ==
    [ title |-> Get(job, "title", "N/A"),
      company |-> Get(job, "company_name", "N/A"),
      location |-> Get(job, "location", "Remote"),
      url |-> Get(job, "url", ""),
      description |-> Truncate(clean_text(Get(job, "description", ""))),
      source |-> "Working Nomads",
      salary |-> "Not specified",
      posted_date |-> Get(job, "pub_date", "") ]

RECURSIVE WorkingNomadsLoop(_, _)
\* lines 194-205
WorkingNomadsLoop(data, acc) ==
    IF data = <<>> THEN acc
    ELSE LET job == Head(data)
         IN  IF ~IsDict(job) THEN WorkingNomadsLoop(Tail(data), acc)
             ELSE IF IllTyped(job) THEN acc
             ELSE IF matches_criteria(job)
                  THEN WorkingNomadsLoop(Tail(data), Append(acc, WorkingNomadsRecord(job)))
                  ELSE WorkingNomadsLoop(Tail(data), acc)

(***************************************************************************)
(* Exceptions.  Every adapter body sits in try ... except Exception, so    *)
(* each kind a request, raise_for_status(), response.json() or the loop    *)
(* can raise is caught.                                                    *)
(***************************************************************************)
RequestErrors == {"Timeout", "ConnectionError", "HTTPError", "JSONDecodeError"}

\* a slip: except requests.exceptions.RequestException
CaughtRequestException(exc) == exc \in {"Timeout", "ConnectionError", "HTTPError"}

\* lines 149, 176 and 207-213: except Exception
Caught(exc) == exc \in RequestErrors \cup {"AttributeError"}

(***************************************************************************)
(* Inputs of the matcher: the environment the module globals are loaded    *)
(* from and the upstream items handed to matches_criteria.                 *)
(***************************************************************************)
EnvMinSalary == {"4000", "13000"}

EnvJobTitles == {"software engineer", "Software Engineer, Developer"}

EnvKeywords == {"AI", "ml, Engineer Build"}

EnvRegion == {"Asia", "global"}

EnvApiKey == {"", "k"}

EmptyDict == [k \in {} |-> ""]

TitleOpts ==
    {"title" :> t : t \in {"Software Engineer", "Senior AI Developer", "Data Analyst"}}

DescriptionOpts ==
    {EmptyDict} \cup {"description" :> d : d \in {"Build AI systems", "Build systems"}}

CompanyOpts == {"company" :> c : c \in {"Acme", "AI Developer Co"}}

LocationOpts ==
    {EmptyDict} \cup
    {"location" :> l : l \in {"Singapore", "Remote", "Remote, Singapore",
                              "Germany", "Berlin"}}

SalaryOpts ==
    {EmptyDict} \cup
    {"salary" :> x : x \in {"", "Not specified", "NOT SPECIFIED", "$150,000",
                            "100000", "100001", "$8000", "$3000 - $5000",
                            "$8000-$12000", "5k", "^ 1000", "$3,500 USD"}}

MatchJobs ==
    {t @@ d @@ c @@ l @@ x :
        t \in TitleOpts, d \in DescriptionOpts, c \in CompanyOpts,
        l \in LocationOpts, x \in SalaryOpts}

LoadConfig ==
    /\ MIN_SALARY \in {LoadMinSalary(e) : e \in EnvMinSalary}
    /\ JOB_TITLES \in {LoadJobTitles(e) : e \in EnvJobTitles}
    /\ KEYWORDS \in {LoadKeywords(e) : e \in EnvKeywords}
    /\ REGION \in {LoadRegion(e) : e \in EnvRegion}

Idle ==
    /\ loc_idx = 1
    /\ jobs = <<>>
    /\ all_jobs = <<>>
    /\ unique_jobs = <<>>
    /\ calls = <<>>
    /\ requests = <<>>
    /\ github_output = <<>>
    /\ jobs_found_json = <<>>
    /\ console = ""

pipeline ==
    <<loc_idx, jobs, all_jobs, unique_jobs, calls, requests, github_output,
      jobs_found_json, console>>

(***************************************************************************)
(* The matcher applied to one upstream item.                               *)
(***************************************************************************)
MatchInit ==
    /\ LoadConfig
    /\ api_key = ""
    /\ Idle
    /\ pc = "matches_criteria"
    /\ arg \in MatchJobs
    /\ ret = "pending"

CallMatchesCriteria ==
    /\ pc = "matches_criteria"
    /\ ret' = matches_criteria(arg)
    /\ pc' = "returned"
    /\ UNCHANGED <<config, pipeline, arg>>

MatchNext == CallMatchesCriteria

MatchSpec == MatchInit /\ [][MatchNext]_vars

Returned == pc = "returned"

(***************************************************************************)
(* main, lines 263-304, with the upstream responses as inputs.             *)
(***************************************************************************)
MaxItems == 2

MaxPageItems == 1

MaxJobs == 3

Dates == {"2024-01-01", "2024-01-02"}

LinkedInItems ==
    { [ job_title |-> "Software Engineer, AI", employer_name |-> "Acme",
        job_description |-> "<p>Build  AI systems</p>", job_city |-> "Singapore",
        job_country |-> "SG", job_apply_link |-> "https://x/1",
        job_salary_min |-> "1000", job_posted_at_datetime_utc |-> "2024-01-01" ],
      [ job_title |-> "AI Software Engineer", employer_name |-> "Initech",
        job_country |-> "India", job_id |-> "7" ],
      [ job_title |-> "Software Engineer", employer_name |-> "AI Developer Co",
        job_city |-> "Tokyo", job_country |-> "Japan", job_apply_link |-> "" ],
      [ job_title |-> "Data Analyst", job_description |-> "AI", job_city |-> "Hanoi",
        job_country |-> "Vietnam", job_apply_link |-> "https://x/4" ],
      "$scalar" :> "" }

RemoteOKItems ==
    { [ title |-> "Software Engineer", company |-> "AI Developer Co",
        location |-> "Singapore", url |-> "https://x/1", salary |-> "$8000",
        description |-> "Ship <b>models</b>", date |-> "2024-01-02" ],
      [ title |-> "Software Engineer, AI", company |-> "Acme",
        location |-> "Remote, India" ],
      [ title |-> "Software Engineer, AI", company |-> "Acme",
        location |-> "Singapore", url |-> "https://x/2", salary |-> "$3000" ],
      "$scalar" :> "",
      [ title |-> "", url |-> "https://x/5" ] @@ ("$illtyped" :> "") }

WorkingNomadsItems ==
    { [ title |-> "Software Engineer", company_name |-> "Acme", description |-> "AI",
        location |-> "India", url |-> "https://x/1", pub_date |-> "" ],
      [ title |-> "Software Engineer", company_name |-> "Globex", description |-> "AI",
        location |-> "Remote", url |-> "https://x/3" ],
      [ title |-> "Software Engineer", description |-> "AI", location |-> "Japan",
        url |-> "https://x/3", salary |-> "$9000" ],
      [ title |-> "" ] @@ ("$illtyped" :> "") }

\* The JSON arrays of at most max items
Lists(items, max) == UNION {[1..n -> items] : n \in 0..max}

\* An item of the list makes the loop of scrape_remoteok / scrape_workingnomads raise
LoopRaises(data) == \E i \in 1..Len(data) : IsDict(data[i]) /\ IllTyped(data[i])

Room(list) == Len(all_jobs) + Len(list) <= MaxJobs

Init ==
    /\ MIN_SALARY = LoadMinSalary("4000")
    /\ JOB_TITLES = LoadJobTitles("software engineer")
    /\ KEYWORDS = LoadKeywords("AI")
    /\ REGION = LoadRegion("asia")
    /\ api_key \in EnvApiKey
    /\ Idle
    /\ pc = "main"
    /\ arg = <<>>
    /\ ret = <<>>

\* line 272 up to the key check of lines 83-87
EnterLinkedIn ==
    /\ pc = "main"
    /\ calls' = Append(calls, "scrape_linkedin_api")
    /\ IF api_key = ""
       THEN pc' = "remoteok" /\ console' = "RAPIDAPI_KEY not set - skipping LinkedIn"
       ELSE pc' = "linkedin" /\ console' = "Checking LinkedIn Jobs (via RapidAPI)..."
    /\ UNCHANGED <<config, arg, ret, loc_idx, jobs, all_jobs, unique_jobs, requests,
                   github_output, jobs_found_json>>

\* lines 103-146, one iteration: the request raises, or response.json() does
LinkedInRequestFails ==
    /\ pc = "linkedin" /\ loc_idx <= Len(locations)
    /\ requests' = Append(requests, <<"jsearch", locations[loc_idx]>>)
    /\ \E exc \in {"Timeout", "ConnectionError", "JSONDecodeError"} :
          /\ IF Caught(exc)
             THEN loc_idx' = AfterLocationError(loc_idx) /\ pc' = pc
             ELSE loc_idx' = loc_idx /\ pc' = "crashed"
          /\ console' = IF exc = "Timeout"
                        THEN "Timeout for " \o locations[loc_idx]
                        ELSE "Error for " \o locations[loc_idx]
    /\ UNCHANGED <<config, arg, ret, jobs, all_jobs, unique_jobs, calls,
                   github_output, jobs_found_json>>

\* one iteration: a status other than 200 (line 114)
LinkedInRequestRefused ==
    /\ pc = "linkedin" /\ loc_idx <= Len(locations)
    /\ requests' = Append(requests, <<"jsearch", locations[loc_idx]>>)
    /\ loc_idx' = loc_idx + 1
    /\ UNCHANGED <<config, pc, arg, ret, jobs, all_jobs, unique_jobs, calls,
                   github_output, jobs_found_json, console>>

\* one iteration: status 200 and a JSON body (lines 115-139)
LinkedInRequestOk ==
    /\ pc = "linkedin" /\ loc_idx <= Len(locations)
    /\ requests' = Append(requests, <<"jsearch", locations[loc_idx]>>)
    /\ \E data \in Lists(LinkedInItems, MaxPageItems) :
          LET collected == LinkedInLoop(data, jobs)
          IN  Room(collected) /\ jobs' = collected
    /\ loc_idx' = loc_idx + 1
    /\ UNCHANGED <<config, pc, arg, ret, all_jobs, unique_jobs, calls,
                   github_output, jobs_found_json, console>>

\* lines 148-152 and the extend of line 272
LinkedInReturn ==
    /\ pc = "linkedin" /\ loc_idx > Len(locations)
    /\ all_jobs' = all_jobs \o jobs
    /\ jobs' = <<>>
    /\ pc' = "remoteok"
    /\ console' = "Found " \o ToString(Len(jobs)) \o " jobs from LinkedIn"
    /\ UNCHANGED <<config, arg, ret, loc_idx, unique_jobs, calls, requests,
                   github_output, jobs_found_json>>

\* line 273: the request, raise_for_status() or response.json() raises
RemoteOKFails ==
    /\ pc = "remoteok"
    /\ calls' = Append(calls, "scrape_remoteok")
    /\ requests' = Append(requests, <<"remoteok", "">>)
    /\ \E exc \in RequestErrors : pc' = IF Caught(exc) THEN "workingnomads" ELSE "crashed"
    /\ console' = "Error scraping RemoteOK"
    /\ UNCHANGED <<config, arg, ret, loc_idx, jobs, all_jobs, unique_jobs,
                   github_output, jobs_found_json>>

\* line 273: a JSON body is read; the loop may raise part-way
RemoteOKOk ==
    /\ pc = "remoteok"
    /\ calls' = Append(calls, "scrape_remoteok")
    /\ requests' = Append(requests, <<"remoteok", "">>)
    /\ \E data \in Lists(RemoteOKItems, MaxItems) :
          LET collected == RemoteOKLoop(data, <<>>)
          IN  /\ Room(collected)
              /\ IF LoopRaises(data) /\ ~Caught("AttributeError")
                 THEN pc' = "crashed" /\ all_jobs' = all_jobs
                 ELSE pc' = "workingnomads" /\ all_jobs' = all_jobs \o collected
              /\ console' =
                    IF LoopRaises(data) THEN "Error scraping RemoteOK"
                    ELSE "Found " \o ToString(Len(collected)) \o " jobs from RemoteOK"
    /\ UNCHANGED <<config, arg, ret, loc_idx, jobs, unique_jobs,
                   github_output, jobs_found_json>>

\* line 274
WorkingNomadsFails ==
    /\ pc = "workingnomads"
    /\ calls' = Append(calls, "scrape_workingnomads")
    /\ requests' = Append(requests, <<"workingnomads", "">>)
    /\ \E exc \in RequestErrors, status \in {403, 500} :
          /\ pc' = IF Caught(exc) THEN "dedup" ELSE "crashed"
          /\ console' = IF exc = "HTTPError" /\ status = 403
                        THEN "Working Nomads blocked (403) - trying alternative"
                        ELSE "Error scraping Working Nomads"
    /\ UNCHANGED <<config, arg, ret, loc_idx, jobs, all_jobs, unique_jobs,
                   github_output, jobs_found_json>>

\* line 274
WorkingNomadsOk ==
    /\ pc = "workingnomads"
    /\ calls' = Append(calls, "scrape_workingnomads")
    /\ requests' = Append(requests, <<"workingnomads", "">>)
    /\ \E data \in Lists(WorkingNomadsItems, MaxItems) :
          LET collected == WorkingNomadsLoop(data, <<>>)
          IN  /\ Room(collected)
              /\ IF LoopRaises(data) /\ ~Caught("AttributeError")
                 THEN pc' = "crashed" /\ all_jobs' = all_jobs
                 ELSE pc' = "dedup" /\ all_jobs' = all_jobs \o collected
              /\ console' =
                    IF LoopRaises(data) THEN "Error scraping Working Nomads"
                    ELSE "Found " \o ToString(Len(collected)) \o " jobs from Working Nomads"
    /\ UNCHANGED <<config, arg, ret, loc_idx, jobs, unique_jobs,
                   github_output, jobs_found_json>>

\* lines 277-278
RemoveDuplicates ==
    /\ pc = "dedup"
    /\ unique_jobs' = Dedup(all_jobs)
    /\ pc' = "emit"
    /\ console' = "Found " \o ToString(Len(Dedup(all_jobs))) \o " unique matching job(s)"
    /\ UNCHANGED <<config, arg, ret, loc_idx, jobs, all_jobs, calls, requests,
                   github_output, jobs_found_json>>

\* line 282: if unique_jobs
FoundJobs(list) == list # <<>>

\* lines 283-300
EmitDigests ==
    /\ pc = "emit" /\ FoundJobs(unique_jobs)
    /\ \E d1 \in Dates, d2 \in Dates :
          github_output' =
              << <<"found_jobs", "true">>,
                 <<"email_body", format_email_body(unique_jobs, d1)>>,
                 <<"email_body_html", format_email_body_html(unique_jobs, d2)>> >>
    /\ jobs_found_json' = unique_jobs
    /\ console' = "Email body:"
    /\ pc' = "done"
    /\ UNCHANGED <<config, arg, ret, loc_idx, jobs, all_jobs, unique_jobs, calls, requests>>

\* lines 301-304
EmitNothing ==
    /\ pc = "emit" /\ ~FoundJobs(unique_jobs)
    /\ github_output' = << <<"found_jobs", "false">> >>
    /\ console' = "No matching jobs found today."
    /\ pc' = "done"
    /\ UNCHANGED <<config, arg, ret, loc_idx, jobs, all_jobs, unique_jobs, calls, requests,
                   jobs_found_json>>

Next ==
    \/ EnterLinkedIn
    \/ LinkedInRequestFails
    \/ LinkedInRequestRefused
    \/ LinkedInRequestOk
    \/ LinkedInReturn
    \/ RemoteOKFails
    \/ RemoteOKOk
    \/ WorkingNomadsFails
    \/ WorkingNomadsOk
    \/ RemoveDuplicates
    \/ EmitDigests
    \/ EmitNothing

Spec == Init /\ [][Next]_vars

\* The script runs to completion: every request has a timeout and no step waits.
FairSpec == Spec /\ WF_vars(Next)

(***************************************************************************)
(* The two renderers applied to one job list.                              *)
(***************************************************************************)
MaxRender == 3

RenderJobs ==
    { [ title |-> "T1", company |-> "C1", location |-> "L1", url |-> "U1",
        description |-> "D1", source |-> "RemoteOK", salary |-> "S1",
        posted_date |-> "P1" ],
      [ title |-> "T2", company |-> "C2", location |-> "L2", url |-> "U2",
        description |-> "", source |-> "Working Nomads", salary |-> "Not specified",
        posted_date |-> "" ],
      [ title |-> "T3", company |-> "C3", location |-> "L3", url |-> "U3",
        description |-> "D3", source |-> "LinkedIn (JSearch API)", salary |-> "S3",
        posted_date |-> "P3" ] }

RenderInit ==
    /\ MIN_SALARY = LoadMinSalary("4000")
    /\ JOB_TITLES = LoadJobTitles("software engineer")
    /\ KEYWORDS = LoadKeywords("AI")
    /\ REGION = LoadRegion("asia")
    /\ api_key = ""
    /\ Idle
    /\ pc = "format_email_body"
    /\ arg \in Lists(RenderJobs, MaxRender)
    /\ ret = <<>>

CallFormatEmailBody ==
    /\ pc = "format_email_body"
    /\ \E today \in Dates : ret' = <<format_email_body(arg, today)>>
    /\ pc' = "format_email_body_html"
    /\ UNCHANGED <<config, pipeline, arg>>

CallFormatEmailBodyHtml ==
    /\ pc = "format_email_body_html"
    /\ \E today \in Dates : ret' = Append(ret, format_email_body_html(arg, today))
    /\ pc' = "rendered"
    /\ UNCHANGED <<config, pipeline, arg>>

RenderNext == CallFormatEmailBody \/ CallFormatEmailBodyHtml

RenderSpec == RenderInit /\ [][RenderNext]_vars

(***************************************************************************)
(* Properties of matches_criteria, checked under MatchSpec.                *)
(***************************************************************************)
Field(job, key) == Lower(Get(job, key, ""))

TitleTokens == {Strip(JOB_TITLES[i]) : i \in 1..Len(JOB_TITLES)}

KeywordTokens == {Strip(KEYWORDS[i]) : i \in 1..Len(KEYWORDS)}

NoTitleToken(job) == \A t \in TitleTokens : ~Contains(Field(job, "title"), t)

NoKeywordInAnyField(job) ==
    \A k \in KeywordTokens :
        \A f \in {"title", "description", "company", "location"} :
            ~Contains(Field(job, f), k)

HasGazetteerToken(job) ==
    \E t \in Range(ASIA_LOCATIONS) : Contains(Field(job, "location"), t)

SaysRemote(job) == Contains(Field(job, "location"), "remote")

RegionIsAsia == REGION = "asia"

\* The whitespace-separated pieces of the salary once '$' and ',' are gone.
SalaryPieces(job) ==
    Range(SplitWs(Remove(Remove(Get(job, "salary", ""), "$"), ","), ""))

DecimalPieces(job) == {p \in SalaryPieces(job) : Chars(p) \subseteq Chars(DIGITS)}

Monthly12(m) == IF m > 100000 THEN m ELSE m * 12

\* The rejection condition of the salary gate as the specification words it.
StatedSalaryRejection(job) ==
    /\ Get(job, "salary", "") # ""
    /\ Lower(Get(job, "salary", "")) # "not specified"
    /\ DecimalPieces(job) # {}
    /\ Monthly12(Min({ParseInt(p) : p \in DecimalPieces(job)})) < MIN_SALARY * 12

\* No piece passes isdigit() and then fails int().
EveryDigitPieceConverts(job) ==
    \A p \in SalaryPieces(job) : IsDigit(p) => Chars(p) \subseteq Chars(DIGITS)

PassesOtherGates(job) == title_match(job) /\ keyword_match(job) /\ ~RegionRejects(job)

\* C1: with REGION "asia", matches_criteria returns true only for a job whose
\* lower-cased location contains a token of ASIA_LOCATIONS.
C1_RegionGateIsAllowList ==
    (Returned /\ RegionIsAsia /\ ret = TRUE) => HasGazetteerToken(arg)

\* C2: a job none of whose title tokens occurs in the lower-cased title is
\* rejected, whatever its other fields and whatever REGION and MIN_SALARY are.
C2_TitleGateFailsClosed == (Returned /\ NoTitleToken(arg)) => ret = FALSE

C2_Witness ==
    /\ Returned /\ NoTitleToken(arg) /\ ret = FALSE
    /\ keyword_match(arg) /\ HasGazetteerToken(arg)
    /\ ~SalaryRejects(Get(arg, "salary", ""), MIN_SALARY)

\* C3: a job that passes the title gate and has no keyword token inside any one
\* of title, description, company and location is rejected.
C3_KeywordGatePerField ==
    (Returned /\ ~NoTitleToken(arg) /\ NoKeywordInAnyField(arg)) => ret = FALSE

\* C4 as stated: among the jobs that pass the other gates, the rejected ones are
\* exactly those whose salary has a decimal piece and a minimum below the floor.
C4_SalaryGateAsStated ==
    (Returned /\ PassesOtherGates(arg)) =>
        (ret = FALSE <=> StatedSalaryRejection(arg))

\* C4 amended: the same, provided no piece of the salary is accepted by
\* isdigit() and refused by int(); with such a piece the job is never rejected.
C4_SalaryGate ==
    (Returned /\ PassesOtherGates(arg)) =>
        (ret = FALSE <=> (EveryDigitPieceConverts(arg) /\ StatedSalaryRejection(arg)))

C4_Witness ==
    /\ Returned /\ PassesOtherGates(arg)
    /\ Get(arg, "salary", "") = "$150,000"
    /\ MIN_SALARY = 13000
    /\ ret = FALSE

\* C5: with REGION "asia", a location that says "remote" and holds no gazetteer
\* token is rejected, and a job that passes the title, keyword and salary gates
\* and whose location holds a gazetteer token is accepted.
C5_RemoteNeedsGazetteerToken ==
    (Returned /\ RegionIsAsia) =>
        /\ (SaysRemote(arg) /\ ~HasGazetteerToken(arg)) => ret = FALSE
        /\ (/\ title_match(arg) /\ keyword_match(arg)
            /\ ~SalaryRejects(Get(arg, "salary", ""), MIN_SALARY)
            /\ HasGazetteerToken(arg)) => ret = TRUE

C5_Witness ==
    /\ Returned /\ RegionIsAsia
    /\ Get(arg, "location", "") = "Remote, Singapore"
    /\ ret = TRUE

(***************************************************************************)
(* Properties of main and the adapters, checked under Spec and FairSpec.   *)
(***************************************************************************)
IsPrefix(a, b) == Len(a) <= Len(b) /\ SubSeq(b, 1, Len(a)) = a

Deduplicated == pc \in {"emit", "done"}

Urls(list) == {list[i]["url"] : i \in 1..Len(list)}

FirstIndex(list, u) == Min({i \in 1..Len(list) : list[i]["url"] = u})

LastIndex(list, u) ==
    CHOOSE i \in 1..Len(list) :
        list[i]["url"] = u /\ \A j \in (i + 1)..Len(list) : list[j]["url"] # u

\* C6: unique_jobs holds one record per distinct non-empty URL of all_jobs and
\* none with an empty URL; the record kept is the last one of all_jobs with that
\* URL; the records stand in the order in which their URLs first occur.
C6_DedupLastWinsFirstSeenOrder ==
    Deduplicated =>
        /\ Urls(unique_jobs) = Urls(all_jobs) \ {""}
        /\ \A i, j \in 1..Len(unique_jobs) :
              i # j => unique_jobs[i]["url"] # unique_jobs[j]["url"]
        /\ \A i \in 1..Len(unique_jobs) :
              unique_jobs[i] = all_jobs[LastIndex(all_jobs, unique_jobs[i]["url"])]
        /\ \A i, j \in 1..Len(unique_jobs) :
              i < j => FirstIndex(all_jobs, unique_jobs[i]["url"])
                         < FirstIndex(all_jobs, unique_jobs[j]["url"])

C6_Witness ==
    /\ Deduplicated
    /\ Len(all_jobs) = 3 /\ Len(unique_jobs) = 2
    /\ all_jobs[1]["url"] = all_jobs[3]["url"]
    /\ all_jobs[1] # all_jobs[3]
    /\ unique_jobs = <<all_jobs[3], all_jobs[2]>>

AdaptersInOrder == calls = <<"scrape_linkedin_api", "scrape_remoteok", "scrape_workingnomads">>

WroteNoJobs ==
    /\ github_output = << <<"found_jobs", "false">> >>
    /\ console = "No matching jobs found today."

WroteDigests ==
    /\ Len(github_output) = 3
    /\ github_output[1] = <<"found_jobs", "true">>
    /\ github_output[2][1] = "email_body"
    /\ github_output[3][1] = "email_body_html"
    /\ \E d \in Dates : github_output[2][2] = format_email_body(unique_jobs, d)
    /\ \E d \in Dates : github_output[3][2] = format_email_body_html(unique_jobs, d)

\* C7 as stated: at the end of the run the three adapters have been invoked once
\* each in order, and found_jobs is false exactly when no adapter returned a record.
C7_EmitAsStated ==
    pc = "done" =>
        /\ AdaptersInOrder
        /\ IF all_jobs = <<>> THEN WroteNoJobs ELSE WroteDigests

\* C7 amended: every run reaches the emit stage and ends; no step drops a record
\* already in all_jobs; at the end the three adapters have been invoked once each
\* in order, and found_jobs is false exactly when no adapter returned a record
\* with a non-empty URL.
C7_NoSourceFailureIsFatal ==
    /\ <>(pc = "done")
    /\ [][IsPrefix(all_jobs, all_jobs')]_vars
    /\ [](pc = "done" =>
            /\ AdaptersInOrder
            /\ IF \A i \in 1..Len(all_jobs) : all_jobs[i]["url"] = ""
               THEN WroteNoJobs
               ELSE WroteDigests)

C7_Witness ==
    /\ pc = "done"
    /\ all_jobs # <<>>
    /\ WroteNoJobs

SixLocations == <<"Singapore", "India", "Tokyo", "Bangkok", "Manila", "Hanoi">>

JSearchRequests == SelectSeq(requests, LAMBDA r : r[1] = "jsearch")

\* C8: with a key, scrape_linkedin_api issues one request per fixed location in
\* list order whatever fails on the way, and a failure removes no record already
\* collected; without a key it issues none and returns an empty list.
C8_OneRequestPerLocation ==
    /\ [](pc = "linkedin" =>
            JSearchRequests = [i \in 1..(loc_idx - 1) |-> <<"jsearch", SixLocations[i]>>])
    /\ [](pc \in {"remoteok", "workingnomads", "dedup", "emit", "done"} =>
            IF api_key = ""
            THEN JSearchRequests = <<>>
            ELSE JSearchRequests = [i \in 1..6 |-> <<"jsearch", SixLocations[i]>>])
    /\ [][(pc = "linkedin" /\ pc' = "linkedin") => IsPrefix(jobs, jobs')]_vars
    /\ [][(pc = "linkedin" /\ pc' = "remoteok") => all_jobs' = jobs]_vars
    /\ [][(pc = "main" /\ pc' = "remoteok") => (api_key = "" /\ all_jobs' = <<>>)]_vars

C8_Witness ==
    /\ pc = "linkedin"
    /\ loc_idx = 7
    /\ console = "Timeout for Hanoi"
    /\ jobs # <<>>
    /\ Len(requests) = 6

\* C10: no record of unique_jobs carries a salary with a determinable number whose
\* monthly figure is below MIN_SALARY.
C10_SalaryFloorHonoured ==
    Deduplicated => \A i \in 1..Len(unique_jobs) : ~StatedSalaryRejection(unique_jobs[i])

(***************************************************************************)
(* Properties of the renderers, checked under RenderSpec.                  *)
(***************************************************************************)
IsContent(line) == line \notin {"", "---", "<hr>"}

\* What the section of the idx-th job has to show, line by line.
SectionFields(idx, job) ==
    << ToString(idx) \o ". " \o job["title"],
       "Company:" \o "\t" \o job["company"],
       "Location:" \o "\t" \o job["location"],
       "Salary:" \o "\t" \o job["salary"],
       "Source:" \o "\t" \o job["source"] >>
    \o (IF job["posted_date"] # "" THEN <<"Posted:" \o "\t" \o job["posted_date"]>> ELSE <<>>)
    \o << "Description:" \o "\t" \o job["description"],
          "\t" \o job["url"] >>

RECURSIVE AllSectionFields(_, _)
AllSectionFields(list, idx) ==
    IF idx > Len(list) THEN <<>>
    ELSE SectionFields(idx, list[idx]) \o AllSectionFields(list, idx + 1)

\* line shows label and value, in this order: want is label, tab, value
Shows(line, want) ==
    \E t \in 1..Len(want) :
        /\ Char(want, t) = "\t"
        /\ \E i \in 1..(Len(line) - t + 2) :
              /\ SubSeq(line, i, i + t - 2) = SubSeq(want, 1, t - 1)
              /\ \E j \in (i + t - 1)..(Len(line) - Len(want) + t + 1) :
                    SubSeq(line, j, j + Len(want) - t - 1) = Drop(want, t)

ShowsTitle(line, want) == Contains(line, want)

WellRendered(body, list) ==
    LET content == SelectSeq(body, IsContent)
        fields == AllSectionFields(list, 1)
    IN  /\ Len(content) = 2 + Len(fields)
        /\ \/ Contains(content[2], "Found **" \o ToString(Len(list)) \o "** ")
           \/ Contains(content[2], "Found <strong>" \o ToString(Len(list)) \o "</strong> ")
        /\ \A i \in 1..Len(fields) :
              IF \E t \in 1..Len(fields[i]) : Char(fields[i], t) = "\t"
              THEN Shows(content[2 + i], fields[i])
              ELSE ShowsTitle(content[2 + i], fields[i])

\* C9: for an empty list each renderer returns only the "No jobs ..." sentence
\* (plain, or wrapped in <p>); for n jobs each emits a header with the count n and
\* then n sections numbered 1..n in input order, the fields of a section in the
\* order title, company, location, salary, source, posted date (when non-empty),
\* description, link.
C9_RenderersAgree ==
    pc = "rendered" =>
        IF arg = <<>>
        THEN /\ ret[1] = <<"No jobs matching your criteria found today.">>
             /\ ret[2] = <<"<p>No jobs matching your criteria found today.</p>">>
        ELSE WellRendered(ret[1], arg) /\ WellRendered(ret[2], arg)

C9_Witness ==
    /\ pc = "rendered"
    /\ Len(arg) = 3
    /\ arg[1]["posted_date"] = "" /\ arg[2]["posted_date"] # ""
    /\ Len(ret[1]) > Len(ret[2])

====
